---- MODULE Spec2Model ----
(***************************************************************************)
(* A model of bin/finance_news_collect.py: the collection run (collect),   *)
(* the per-source pipeline (_collect_one), the recency filter and the      *)
(* deduplicator (_dedup, title_sim).                                       *)
(*                                                                         *)
(* Titles and links are sequences of one-character strings.  Timestamps    *)
(* are integers (minutes): every published_at that reaches _dedup is the   *)
(* isoformat() of a UTC datetime, and the string order of such values is   *)
(* their time order, so the sort key of _dedup is modelled on the integer. *)
(* A similarity ratio 2*M/T and a threshold are compared as fractions; a   *)
(* threshold is given in hundredths.                                       *)
(***************************************************************************)
EXTENDS Integers, Sequences, FiniteSets, TLC

VARIABLES
    pc,          \* position of collect: "collect", "dedup", "done", "crashed"
    region,      \* index into Regions of the region being processed
    srcIdx,      \* index of the next source of that region
    all_items,   \* collect: all_items of the current region
    errors,      \* collect: errors of the current region
    parsed,      \* _collect_one: the entries parse_items returned last
    out,         \* collect: out["regions"], a sequence of region results
    dd_pc,       \* dedup on its own: "input", "kept"
    dd_threshold,\* dedup on its own: the threshold, in hundredths
    dd_items,    \* dedup on its own: the input list
    dd_kept,     \* dedup on its own: the list _dedup returned
    dd_trace,    \* dedup on its own: kept at each position of the sorted list
    bu_pc,       \* build_url on its own: "input", "resolved"
    bu_src,      \* build_url on its own: the source
    bu_res,      \* build_url on its own: what build_url returned or raised
    md_pc,       \* md_upsert_daily_section: "input", "written", "exit"
    md_exists,   \* md_upsert_daily_section: --file exists
    md_file,     \* md_upsert_daily_section: the text of --file before the run
    md_block,    \* md_upsert_daily_section: the text of --content-file
    md_out,      \* md_upsert_daily_section: the text of --file after the run
    tw_pc,       \* tw_weekly_update_table: "input", "written", "exit"
    tw_exists,   \* tw_weekly_update_table: --week-file exists
    tw_file,     \* tw_weekly_update_table: the text of --week-file before the run
    tw_table,    \* tw_weekly_update_table: the text of --table-file
    tw_out,      \* tw_weekly_update_table: the text of --week-file after the run
    mb_pc,       \* moltbook_digest: "start", "ran", "failed"
    mb_exists,   \* moltbook_digest: the state file exists
    mb_seen_ids, \* moltbook_digest: seen_ids of the state file
    mb_posts,    \* moltbook_digest: the posts of the last completed run
    mb_top,      \* moltbook_digest: the posts the last completed run showed
    mb_earlier   \* moltbook_digest: ids the completed runs before it were given

vars == <<pc, region, srcIdx, all_items, errors, parsed, out,
          dd_pc, dd_threshold, dd_items, dd_kept, dd_trace,
          bu_pc, bu_src, bu_res,
          md_pc, md_exists, md_file, md_block, md_out,
          tw_pc, tw_exists, tw_file, tw_table, tw_out,
          mb_pc, mb_exists, mb_seen_ids, mb_posts, mb_top, mb_earlier>>

collectVars == <<pc, region, srcIdx, all_items, errors, parsed, out>>
dedupVars == <<dd_pc, dd_threshold, dd_items, dd_kept, dd_trace>>
urlVars == <<bu_pc, bu_src, bu_res>>
upsertVars == <<md_pc, md_exists, md_file, md_block, md_out>>
\* the variables of the scripts and functions taken on their own, dedup apart
tableVars == <<tw_pc, tw_exists, tw_file, tw_table, tw_out>>
digestVars == <<mb_pc, mb_exists, mb_seen_ids, mb_posts, mb_top, mb_earlier>>
toolVars == <<urlVars, upsertVars, tableVars, digestVars>>

UrlIdle == bu_pc = "idle" /\ bu_src = <<>> /\ bu_res = <<>>
UpsertIdle ==
    /\ md_pc = "idle" /\ md_exists = FALSE
    /\ md_file = <<>> /\ md_block = <<>> /\ md_out = <<>>
TableIdle ==
    /\ tw_pc = "idle" /\ tw_exists = FALSE
    /\ tw_file = <<>> /\ tw_table = <<>> /\ tw_out = <<>>
DigestIdle ==
    /\ mb_pc = "idle" /\ mb_exists = FALSE /\ mb_seen_ids = {}
    /\ mb_posts = <<>> /\ mb_top = <<>> /\ mb_earlier = {}
ToolsIdle == UrlIdle /\ UpsertIdle /\ TableIdle /\ DigestIdle

-----------------------------------------------------------------------------
(* Text helpers.                                                           *)

Whitespace == {" ", "\t"}

\* str.lower() on the characters of the model's alphabet
Lower(c) ==
    CASE c = "A" -> "a"
      [] c = "B" -> "b"
      [] c = "C" -> "c"
      [] OTHER -> c

RECURSIVE LStrip(_)
LStrip(s) ==
    IF s = <<>> THEN <<>>
    ELSE IF Head(s) \in Whitespace THEN LStrip(Tail(s)) ELSE s

RECURSIVE RStrip(_)
RStrip(s) ==
    IF s = <<>> THEN <<>>
    ELSE IF s[Len(s)] \in Whitespace THEN RStrip(SubSeq(s, 1, Len(s) - 1)) ELSE s

\* str.strip()
Strip(s) == RStrip(LStrip(s))

\* re.sub(r"\s+", " ", s): every run of whitespace becomes one space
RECURSIVE CollapseWs(_)
CollapseWs(s) ==
    IF s = <<>> THEN <<>>
    ELSE IF Head(s) \in Whitespace
         THEN <<" ">> \o CollapseWs(LStrip(s))
         ELSE <<Head(s)>> \o CollapseWs(Tail(s))

title_norm(s) == CollapseWs([i \in 1..Len(Strip(s)) |-> Lower(Strip(s)[i])])

canonical_url(u) == Strip(u)

-----------------------------------------------------------------------------
(* difflib.SequenceMatcher(None, a, b).ratio(), no junk (autojunk only     *)
(* applies to sequences of 200 or more elements).  Ranges are half-open    *)
(* and 1-based: a[alo..ahi-1], b[blo..bhi-1].                              *)

\* length of the common run starting at a[i], b[j], inside the ranges
RECURSIVE RunLen(_, _, _, _, _, _)
RunLen(a, b, i, j, ahi, bhi) ==
    IF i < ahi /\ j < bhi /\ a[i] = b[j]
    THEN 1 + RunLen(a, b, i + 1, j + 1, ahi, bhi)
    ELSE 0

\* find_longest_match: <<i, j, k>>, the longest block; of those the one that
\* starts earliest in a, and of those the one that starts earliest in b
find_longest_match(a, b, alo, ahi, blo, bhi) ==
    LET cand == {<<i, j, RunLen(a, b, i, j, ahi, bhi)>> :
                    i \in alo..(ahi - 1), j \in blo..(bhi - 1)}
        best == {c \in cand : c[3] > 0 /\ \A d \in cand :
                    \/ d[3] < c[3]
                    \/ d[3] = c[3] /\ (c[1] < d[1] \/ (c[1] = d[1] /\ c[2] <= d[2]))}
    IN  IF best = {} THEN <<alo, blo, 0>> ELSE CHOOSE c \in best : TRUE

\* get_matching_blocks: the total size of the matching blocks
RECURSIVE MatchSize(_, _, _, _, _, _)
MatchSize(a, b, alo, ahi, blo, bhi) ==
    IF alo >= ahi \/ blo >= bhi THEN 0
    ELSE LET m == find_longest_match(a, b, alo, ahi, blo, bhi)
         IN  IF m[3] = 0 THEN 0
             ELSE m[3] + MatchSize(a, b, alo, m[1], blo, m[2])
                       + MatchSize(a, b, m[1] + m[3], ahi, m[2] + m[3], bhi)

\* title_sim as the fraction <<numerator, denominator>>
title_sim(a, b) ==
    LET a2 == title_norm(a)
        b2 == title_norm(b)
    IN  IF a2 = <<>> \/ b2 = <<>> THEN <<0, 1>>
        ELSE <<2 * MatchSize(a2, b2, 1, Len(a2) + 1, 1, Len(b2) + 1), Len(a2) + Len(b2)>>

\* The titles of the model, and title_sim tabulated on them once (title_sim
\* is a pure function; the table only saves recomputing it).
ModelTitles == {<<>>, <<"A", " ", " ", "b">>, <<"a", "b">>, <<"a", " ", "b", "c">>}
SimTable == [a \in ModelTitles, b \in ModelTitles |-> title_sim(a, b)]
Sim(a, b) == IF a \in ModelTitles /\ b \in ModelTitles THEN SimTable[a, b] ELSE title_sim(a, b)

\* title_sim(a, b) >= threshold, threshold in hundredths
SimGE(a, b, thr) == Sim(a, b)[1] * 100 >= thr * Sim(a, b)[2]

-----------------------------------------------------------------------------
(* _dedup.  An item is a record; has_alt tells whether the keys alt_links  *)
(* and alt_sources exist on it (both are created by the same merge).       *)

InSeq(x, s) == \E i \in 1..Len(s) : s[i] = x

\* the sort key (published_at, weight) of x is strictly below that of y
KeyLess(x, y) ==
    \/ x.published_at < y.published_at
    \/ x.published_at = y.published_at /\ x.weight < y.weight

\* a sort that reverses an ascending stable sort: equal keys end up in
\* reverse input order
RECURSIVE InsertDesc_Unstable(_, _)
InsertDesc_Unstable(sorted, it) ==
    IF sorted = <<>> THEN <<it>>
    ELSE IF ~KeyLess(it, Head(sorted)) THEN <<it>> \o sorted
    ELSE <<Head(sorted)>> \o InsertDesc_Unstable(Tail(sorted), it)

\* an ascending sort: the oldest and lightest item comes first
RECURSIVE InsertDesc_Ascending(_, _)
InsertDesc_Ascending(sorted, it) ==
    IF sorted = <<>> THEN <<it>>
    ELSE IF KeyLess(it, Head(sorted)) THEN <<it>> \o sorted
    ELSE <<Head(sorted)>> \o InsertDesc_Ascending(Tail(sorted), it)

\* where a stable descending sort puts it: behind every element whose key is
\* not below its own
RECURSIVE InsertDesc(_, _)
InsertDesc(sorted, it) ==
    IF sorted = <<>> THEN <<it>>
    ELSE IF KeyLess(Head(sorted), it) THEN <<it>> \o sorted
    ELSE <<Head(sorted)>> \o InsertDesc(Tail(sorted), it)

RECURSIVE SortFrom(_, _, _)
SortFrom(items, i, acc) ==
    IF i > Len(items) THEN acc
    ELSE SortFrom(items, i + 1, InsertDesc(acc, items[i]))

\* no sort at all: the items are processed in input order
SortedDesc_Unsorted(items) == items

\* sorted(items, key=(published_at, weight), reverse=True)
SortedDesc(items) == SortFrom(items, 1, <<>>)

\* the exact-URL rule left out
LinkSeen_Never(u, seen_url) == FALSE

\* u and u in seen_url
LinkSeen(u, seen_url) == u # <<>> /\ u \in seen_url

\* ">" where the code has ">="
IsDup_Strict(it, k, thr) ==
    Sim(it.title, k.title)[1] * 100 > thr * Sim(it.title, k.title)[2]

\* the candidate's title compared with itself
IsDup_SelfCompare(it, k, thr) == SimGE(it.title, it.title, thr)

\* any two titles with a character in common count as duplicates
IsDup_AnyOverlap(it, k, thr) == Sim(it.title, k.title)[1] > 0

\* title_sim(it.title, k.title) >= threshold
IsDup(it, k, thr) == SimGE(it.title, k.title, thr)

\* a kept item records one alternate link only
MergeAltLinks_OnlyFirst(k, u) ==
    IF u # <<>> /\ k.alt_links = <<>> /\ u # k.link
    THEN Append(k.alt_links, u)
    ELSE k.alt_links

\* if u and u not in k["alt_links"] and u != k.get("link"): append
MergeAltLinks(k, u) ==
    IF u # <<>> /\ ~InSeq(u, k.alt_links) /\ u # k.link
    THEN Append(k.alt_links, u)
    ELSE k.alt_links

\* without the test against the primary's own source
MergeAltSources_NoOwnCheck(k, src) ==
    IF src # "" /\ ~InSeq(src, k.alt_sources)
    THEN Append(k.alt_sources, src)
    ELSE k.alt_sources

\* if source and source not in k["alt_sources"] and source != k.get("source"): append
MergeAltSources(k, src) ==
    IF src # "" /\ ~InSeq(src, k.alt_sources) /\ src # k.source
    THEN Append(k.alt_sources, src)
    ELSE k.alt_sources

\* the body of the merge branch, applied to the kept item k
Merge(k, it) ==
    [k EXCEPT !.has_alt = TRUE,
              !.alt_links = MergeAltLinks(k, it.link),
              !.alt_sources = MergeAltSources(k, it.source)]

\* the candidate is compared with the last kept item only
FirstMatch_LastOnly(kept, it, thr) ==
    IF kept # <<>> /\ IsDup(it, kept[Len(kept)], thr) THEN Len(kept) ELSE 0

\* the kept item closest to the candidate among its duplicates, 0 if none
FirstMatch_Closest(kept, it, thr) ==
    IF \E j \in 1..Len(kept) : IsDup(it, kept[j], thr)
    THEN CHOOSE j \in 1..Len(kept) :
            /\ IsDup(it, kept[j], thr)
            /\ \A h \in 1..Len(kept) :
                  LET sj == Sim(it.title, kept[j].title)
                      sh == Sim(it.title, kept[h].title)
                  IN  \/ sh[1] * sj[2] < sj[1] * sh[2]
                      \/ sh[1] * sj[2] = sj[1] * sh[2] /\ j <= h
    ELSE 0

\* index of the first kept item the candidate is a duplicate of, 0 if none
FirstMatch(kept, it, thr) ==
    IF \E j \in 1..Len(kept) : IsDup(it, kept[j], thr)
    THEN CHOOSE j \in 1..Len(kept) :
            /\ IsDup(it, kept[j], thr)
            /\ \A h \in 1..(j - 1) : ~IsDup(it, kept[h], thr)
    ELSE 0

\* the title test ahead of the exact-link test: a candidate whose link is
\* already kept still merges into a similar kept item
RECURSIVE DedupLoop_TitleFirst(_, _, _, _, _)
DedupLoop_TitleFirst(sorted, i, kept, seen_url, thr) ==
    IF i > Len(sorted) THEN kept
    ELSE LET it == sorted[i]
             u == it.link
             m == FirstMatch(kept, it, thr)
         IN  IF m # 0
             THEN DedupLoop_TitleFirst(sorted, i + 1,
                            [kept EXCEPT ![m] = Merge(kept[m], it)], seen_url, thr)
             ELSE IF LinkSeen(u, seen_url)
             THEN DedupLoop_TitleFirst(sorted, i + 1, kept, seen_url, thr)
             ELSE DedupLoop_TitleFirst(sorted, i + 1, Append(kept, it),
                            IF u # <<>> THEN seen_url \cup {u} ELSE seen_url, thr)

\* seen_url holds the link of the last kept item only
RECURSIVE DedupLoop_SeenReset(_, _, _, _, _)
DedupLoop_SeenReset(sorted, i, kept, seen_url, thr) ==
    IF i > Len(sorted) THEN kept
    ELSE LET it == sorted[i]
             u == it.link
             m == FirstMatch(kept, it, thr)
         IN  IF LinkSeen(u, seen_url)
             THEN DedupLoop_SeenReset(sorted, i + 1, kept, seen_url, thr)
             ELSE IF m # 0
             THEN DedupLoop_SeenReset(sorted, i + 1,
                            [kept EXCEPT ![m] = Merge(kept[m], it)], seen_url, thr)
             ELSE DedupLoop_SeenReset(sorted, i + 1, Append(kept, it),
                            IF u # <<>> THEN {u} ELSE seen_url, thr)

\* the loop of _dedup from position i of the sorted list
RECURSIVE DedupLoop(_, _, _, _, _)
DedupLoop(sorted, i, kept, seen_url, thr) ==
    IF i > Len(sorted) THEN kept
    ELSE LET it == sorted[i]
             u == it.link
             m == FirstMatch(kept, it, thr)
         IN  IF LinkSeen(u, seen_url)
             THEN DedupLoop(sorted, i + 1, kept, seen_url, thr)
             ELSE IF m # 0
             THEN DedupLoop(sorted, i + 1,
                            [kept EXCEPT ![m] = Merge(kept[m], it)], seen_url, thr)
             ELSE DedupLoop(sorted, i + 1, Append(kept, it),
                            IF u # <<>> THEN seen_url \cup {u} ELSE seen_url, thr)

_dedup(items, thr) == DedupLoop(SortedDesc(items), 1, <<>>, {}, thr)

\* kept as it is when the loop reaches each position q of the sorted list
\* (the loop run on the q - 1 items before it), and after the last position
KeptTable(sorted, thr) ==
    [q \in 1..(Len(sorted) + 1) |->
        DedupLoop(SubSeq(sorted, 1, q - 1), 1, <<>>, {}, thr)]

-----------------------------------------------------------------------------
(* _dedup on its own: the input list is drawn from a bounded set of items  *)
(* that _collect_one can return (a title or a link is present, both are    *)
(* stripped, the weight is the source's), and DedupRun applies _dedup.     *)

MaxItems == 3

DedupTitles == ModelTitles
DedupLinks == {<<>>, <<"1">>, <<"2">>}
DedupSources == [s1 |-> [name |-> "s1", id |-> "id1", weight |-> 2],
                 s2 |-> [name |-> "s2", id |-> "id2", weight |-> 1]]
\* <<published_at, source>>: newer from the light source, older from the
\* heavy one, older from the light one
DedupOrigins == {<<2, DedupSources.s2>>, <<1, DedupSources.s1>>, <<1, DedupSources.s2>>}
DedupThresholds == {80}

\* the dict _collect_one builds for an entry of a source
NewItem(title, link, dt, src) ==
    [title |-> Strip(title), link |-> canonical_url(link), published_at |-> dt,
     source |-> src.name, source_id |-> src.id, weight |-> src.weight,
     has_alt |-> FALSE, alt_links |-> <<>>, alt_sources |-> <<>>]

\* parse_items drops an entry that has neither a title nor a link
DedupUniverse ==
    {NewItem(t, l, o[1], o[2]) : t \in DedupTitles, l \in DedupLinks, o \in DedupOrigins}
        \ {NewItem(<<>>, <<>>, o[1], o[2]) : o \in DedupOrigins}

CollectIdle ==
    /\ pc = "idle" /\ region = 0 /\ srcIdx = 0
    /\ all_items = <<>> /\ errors = <<>> /\ parsed = <<>> /\ out = <<>>

DedupIdle ==
    /\ dd_pc = "idle" /\ dd_threshold = 0
    /\ dd_items = <<>> /\ dd_kept = <<>> /\ dd_trace = <<>>

DedupInit ==
    /\ CollectIdle
    /\ dd_pc = "input"
    /\ dd_threshold \in DedupThresholds
    /\ \E n \in 0..MaxItems : dd_items \in [1..n -> DedupUniverse]
    /\ dd_kept = <<>>
    /\ dd_trace = <<>>
    /\ ToolsIdle

DedupRun ==
    /\ dd_pc = "input"
    /\ dd_kept' = _dedup(dd_items, dd_threshold)
    /\ dd_trace' = KeptTable(SortedDesc(dd_items), dd_threshold)
    /\ dd_pc' = "kept"
    /\ UNCHANGED <<dd_items, dd_threshold>>
    /\ UNCHANGED <<collectVars, toolVars>>

DedupNext == DedupRun

SpecDedup == DedupInit /\ [][DedupNext]_vars

-----------------------------------------------------------------------------
(* The configuration: load_sources returns the regions "taiwan" and        *)
(* "global", in this order, each with its sources in configuration order.  *)

None == "<None>"

Regions == <<"taiwan", "global">>

Sources ==
    [taiwan |-> <<
        [id |-> "tw1", name |-> "TW One", type |-> "rss", url |-> "http://tw1/rss",
         url_template |-> None, query |-> None, weight |-> 2],
        [id |-> "tw2", name |-> "TW Two", type |-> "html", url |-> "http://tw2/",
         url_template |-> None, query |-> None, weight |-> 1],
        [id |-> "tw3", name |-> "TW Three", type |-> "rss", url |-> None,
         url_template |-> <<"http://news/rss?q=", "{query}">>, query |-> <<"t", " ", "w">>,
         weight |-> 1]>>,
     global |-> <<
        [id |-> "g1", name |-> "G One", type |-> "rss", url |-> None,
         url_template |-> None, query |-> None, weight |-> 1],
        [id |-> "g2", name |-> "G Two", type |-> "rss", url |-> "http://g2/rss",
         url_template |-> None, query |-> None, weight |-> 1]>>]

\* --window-hours (default) and the run's start, in hours
DefaultWindowHours == 2
RunStart == 5
\* cutoff = now_utc() - timedelta(hours=window_hours)
cutoff == RunStart - DefaultWindowHours

\* the threshold default of collect, in hundredths
DefaultThreshold == 90

-----------------------------------------------------------------------------
(* build_url.  A url_template is a sequence of segments, one of them the   *)
(* placeholder "{query}"; a query is a sequence of characters.             *)

Unreserved == {"a", "b", "c", "t", "w", "A", "B", "C", "1", "2", "-", ".", "_", "~"}

\* urllib.parse.quote(q, safe=""): every character outside the unreserved
\* set is percent-encoded
Quote(q) ==
    [i \in 1..Len(q) |->
        IF q[i] \in Unreserved THEN q[i]
        ELSE CASE q[i] = " " -> "%20"
               [] q[i] = "\t" -> "%09"
               [] q[i] = "/" -> "%2F"
               [] OTHER -> "%3F"]

\* url_template.format(query=...)
Format(tpl, q) == [i \in 1..Len(tpl) |-> IF tpl[i] = "{query}" THEN q ELSE <<tpl[i]>>]

Raised(type, msg) == [ok |-> FALSE, type |-> type, msg |-> msg, value |-> <<>>]
Returned(v) == [ok |-> TRUE, type |-> "", msg |-> "", value |-> v]

\* the url is returned before the type is looked at
build_url_UrlFirst(src) ==
    IF src.url # None /\ src.url # "" THEN Returned(src.url)
    ELSE IF src.type # "rss" THEN Raised("ValueError", "Unsupported source type: " \o src.type)
    ELSE IF src.url_template # None /\ src.url_template # <<>> /\ src.query # None
    THEN Returned(Format(src.url_template, Quote(src.query)))
    ELSE Raised("ValueError", "Source " \o src.id \o " missing url or url_template")

build_url(src) ==
    IF src.type # "rss" THEN Raised("ValueError", "Unsupported source type: " \o src.type)
    ELSE IF src.url # None /\ src.url # "" THEN Returned(src.url)
    ELSE IF src.url_template # None /\ src.url_template # <<>> /\ src.query # None
    THEN Returned(Format(src.url_template, Quote(src.query)))
    ELSE Raised("ValueError", "Source " \o src.id \o " missing url or url_template")

-----------------------------------------------------------------------------
(* build_url on its own: the source is drawn from the combinations of a    *)
(* type, a url, a url_template and a query that a configuration can give   *)
(* (a key left out is None, a key given empty is the empty string), and    *)
(* ResolveUrl applies build_url.                                           *)

UrlTypes == {"rss", "html", "atom"}
UrlUrls == {None, "", "http://d/rss"}
UrlTemplates == {None, <<>>, <<"http://n/rss?q=", "{query}">>,
                 <<"http://n/", "{query}", "/rss">>, <<"http://n/all">>}
UrlQueries == {None, <<>>, <<"t", " ", "w">>, <<"a", "/", "b">>}

UrlSources == [id : {"s"}, name : {"S"}, type : UrlTypes, url : UrlUrls,
               url_template : UrlTemplates, query : UrlQueries, weight : {1}]

UrlInit ==
    /\ CollectIdle /\ DedupIdle /\ UpsertIdle /\ TableIdle /\ DigestIdle
    /\ bu_pc = "input"
    /\ bu_src \in UrlSources
    /\ bu_res = <<>>

ResolveUrl ==
    /\ bu_pc = "input"
    /\ bu_res' = build_url(bu_src)
    /\ bu_pc' = "resolved"
    /\ UNCHANGED bu_src
    /\ UNCHANGED <<collectVars, dedupVars, upsertVars, tableVars, digestVars>>

UrlNext == ResolveUrl

SpecUrl == UrlInit /\ [][UrlNext]_vars

-----------------------------------------------------------------------------
(* Markdown files.  A text is a sequence of tokens: "\n" ends a line, " "   *)
(* is a blank, "##" opens a header, a date is one token, and the other     *)
(* tokens stand for words.  str.splitlines(True) cuts a text into lines    *)
(* that keep their "\n"; only the last line of a text can lack it.         *)

ReportDate == "2024-01-02"
OtherDate == "2024-01-03"
Dates == {ReportDate, OtherDate}
WsTokens == {" ", "\t", "\n"}
WordTokens == Dates \cup {"x", "y"}

RECURSIVE SplitLines(_)
SplitLines(text) ==
    IF text = <<>> THEN <<>>
    ELSE IF \E n \in 1..Len(text) : text[n] = "\n"
    THEN LET n == CHOOSE n \in 1..Len(text) :
                    text[n] = "\n" /\ \A h \in 1..(n - 1) : text[h] # "\n"
         IN  <<SubSeq(text, 1, n)>> \o SplitLines(SubSeq(text, n + 1, Len(text)))
    ELSE <<text>>

\* "".join(lines)
RECURSIVE JoinLines(_)
JoinLines(lines) == IF lines = <<>> THEN <<>> ELSE Head(lines) \o JoinLines(Tail(lines))

\* s.strip() == ""
IsBlank(s) == \A i \in 1..Len(s) : s[i] \in WsTokens

\* s.endswith("\n")
EndsNl(s) == s # <<>> /\ s[Len(s)] = "\n"

\* the lines with "\n" added to the last one when it lacks it
TerminateLast(lines) ==
    IF lines # <<>> /\ ~EndsNl(lines[Len(lines)])
    THEN [lines EXCEPT ![Len(lines)] = @ \o <<"\n">>]
    ELSE lines

\* "\n" appended as a line of its own when the last line is not blank
BlankAfter(lines) ==
    IF lines # <<>> /\ ~IsBlank(lines[Len(lines)]) THEN Append(lines, <<"\n">>) ELSE lines

\* ^##\s+<d>\b for a date d in ds: "##", one or more blanks, the date, and
\* then no word character
MatchesHeader(ln, ds) ==
    /\ Len(ln) >= 3 /\ ln[1] = "##"
    /\ \E n \in 1..(Len(ln) - 2) :
          /\ \A i \in 2..(n + 1) : ln[i] \in WsTokens
          /\ ln[n + 2] \in ds
          /\ n + 2 < Len(ln) => ln[n + 3] \notin WordTokens

\* index of the first line from position from on that matches, 0 if none
FirstHeader(lines, from, ds) ==
    IF \E i \in from..Len(lines) : MatchesHeader(lines[i], ds)
    THEN CHOOSE i \in from..Len(lines) :
            /\ MatchesHeader(lines[i], ds)
            /\ \A h \in from..(i - 1) : ~MatchesHeader(lines[h], ds)
    ELSE 0

-----------------------------------------------------------------------------
(* md_upsert_daily_section.py, main, with --date ReportDate.               *)

Exit(msg) == [status |-> "exit", msg |-> msg, text |-> <<>>]
Written(text) == [status |-> "written", msg |-> "", text |-> text]

\* the branch taken when no header of the date is found
UpsertAppend(lines, block) ==
    Append(BlankAfter(TerminateLast(lines)),
           IF EndsNl(block) THEN block ELSE block \o <<"\n">>)

\* the branch taken when the header of the date is at lines[start]
UpsertReplace(lines, start, block) ==
    LET nxt == FirstHeader(lines, start + 1, Dates)
        end == IF nxt = 0 THEN Len(lines) + 1 ELSE nxt
        new_section == TerminateLast(<<lines[start]>> \o Tail(SplitLines(block)))
        head == SubSeq(lines, 1, start - 1) \o new_section
    IN  IF end <= Len(lines)
        THEN BlankAfter(head) \o SubSeq(lines, end, Len(lines))
        ELSE head

md_upsert(exists, file, block) ==
    IF IsBlank(block) THEN Exit("content-file is empty")
    ELSE LET lines == IF exists THEN SplitLines(file) ELSE <<>>
             start == FirstHeader(lines, 1, {ReportDate})
         IN  IF start = 0
             THEN Written(JoinLines(UpsertAppend(lines, block)))
             ELSE Written(JoinLines(UpsertReplace(lines, start, block)))

MaxFileLines == 3

\* the lines a report is made of, without their "\n"
FileLines ==
    {<<"##", " ", ReportDate, " ", "(Tue)">>, <<"##", " ", ReportDate>>,
     <<"##", " ", OtherDate>>, <<"##", " ", ReportDate, "x">>, <<"##", ReportDate>>,
     <<>>, <<"x">>}

\* texts of n lines; the last line may lack its "\n"
RECURSIVE TextsOf(_)
TextsOf(n) ==
    IF n = 0 THEN {<<>>}
    ELSE {l \o <<"\n">> \o t : l \in FileLines, t \in TextsOf(n - 1)}
            \cup (IF n = 1 THEN FileLines \ {<<>>} ELSE {})

FileTexts == UNION {TextsOf(n) : n \in 0..MaxFileLines}

BlockTexts ==
    {<<>>, <<" ", "\n">>,
     <<"##", " ", ReportDate, " ", "(Wed)", "\n">>,
     <<"##", " ", ReportDate, " ", "(Wed)", "\n", "y", "\n">>,
     <<"##", " ", ReportDate, " ", "(Wed)", "\n", "y">>,
     <<"##", " ", ReportDate, " ", "(Wed)", "\n", "\n", "y", "\n", "\n">>,
     <<"y", "\n", "y", "\n">>}

UpsertInit ==
    /\ CollectIdle /\ DedupIdle /\ UrlIdle /\ TableIdle /\ DigestIdle
    /\ md_pc = "input"
    /\ md_exists \in BOOLEAN
    /\ md_file \in (IF md_exists THEN FileTexts ELSE {<<>>})
    /\ md_block \in BlockTexts
    /\ md_out = md_file

UpsertRun ==
    /\ md_pc = "input"
    /\ LET r == md_upsert(md_exists, md_file, md_block)
       IN  /\ md_pc' = r.status
           /\ md_out' = IF r.status = "written" THEN r.text ELSE md_out
           /\ md_exists' = (md_exists \/ r.status = "written")
    /\ UNCHANGED <<md_file, md_block>>
    /\ UNCHANGED <<collectVars, dedupVars, urlVars, tableVars, digestVars>>

UpsertNext == UpsertRun

SpecUpsert == UpsertInit /\ [][UpsertNext]_vars

-----------------------------------------------------------------------------
(* tw_weekly_update_table.py, main, with --date ReportDate.  "|" opens a   *)
(* table row and GapNote stands for the prefix of the gap note line.       *)

GapNote == "GapNote:"

\* ln.startswith("## ") and re.match(^##\s+<d>\b, ln) for a date d in ds
IsDailyHeader(ln, ds) == Len(ln) >= 2 /\ ln[2] = " " /\ MatchesHeader(ln, ds)

FirstDailyHeader(lines, from, ds) ==
    IF \E i \in from..Len(lines) : IsDailyHeader(lines[i], ds)
    THEN CHOOSE i \in from..Len(lines) :
            /\ IsDailyHeader(lines[i], ds)
            /\ \A h \in from..(i - 1) : ~IsDailyHeader(lines[h], ds)
    ELSE 0

\* ln.lstrip().startswith("|")
IsTableLine(ln) ==
    \E i \in 1..Len(ln) : ln[i] = "|" /\ \A h \in 1..(i - 1) : ln[h] \in WsTokens

\* text.strip("\n")
RECURSIVE StripNl(_)
StripNl(text) ==
    IF text = <<>> THEN <<>>
    ELSE IF Head(text) = "\n" THEN StripNl(Tail(text))
    ELSE IF text[Len(text)] = "\n" THEN StripNl(SubSeq(text, 1, Len(text) - 1))
    ELSE text

\* index of the first table line of section, 0 if none
FirstTableLine(section) ==
    IF \E k \in 1..Len(section) : IsTableLine(section[k])
    THEN CHOOSE k \in 1..Len(section) :
            IsTableLine(section[k]) /\ \A h \in 1..(k - 1) : ~IsTableLine(section[h])
    ELSE 0

\* index of the first line after the table that starts at t0
RECURSIVE TableEnd(_, _)
TableEnd(section, t1) ==
    IF t1 <= Len(section) /\ IsTableLine(section[t1]) THEN TableEnd(section, t1 + 1) ELSE t1

\* at most one blank line, then at most one gap note line, are taken with
\* the table
AfterGapNote(section, t1) ==
    LET t2 == IF t1 <= Len(section) /\ IsBlank(section[t1]) THEN t1 + 1 ELSE t1
    IN  IF t2 <= Len(section) /\ section[t2] # <<>> /\ section[t2][1] = GapNote
        THEN t2 + 1 ELSE t2

\* the section with its first table (from t0 on) replaced by table_text
ReplaceTable(section, t0, table_text) ==
    LET t2 == AfterGapNote(section, TableEnd(section, t0))
        before == SubSeq(section, 1, t0 - 1)
        after == SubSeq(section, t2, Len(section))
    IN  BlankAfter(Append(BlankAfter(before), table_text \o <<"\n">>)) \o after

\* the file is written although the section has no table: the new table is
\* put at the end of the section
tw_update_WriteWithoutTable(exists, file, table) ==
    LET table_text == StripNl(table)
        lines == SplitLines(file)
        start == FirstDailyHeader(lines, 1, {ReportDate})
        nxt == FirstDailyHeader(lines, start + 1, Dates)
        end == IF nxt = 0 THEN Len(lines) + 1 ELSE nxt
        section == SubSeq(lines, start, end - 1)
        t0 == FirstTableLine(section)
    IN  IF ~exists THEN Exit("week file not found")
        ELSE IF IsBlank(table_text) THEN Exit("table-file is empty")
        ELSE IF start = 0 THEN Exit("daily header not found for date")
        ELSE Written(JoinLines(SubSeq(lines, 1, start - 1)
                        \o ReplaceTable(section, IF t0 = 0 THEN Len(section) + 1 ELSE t0,
                                        table_text)
                        \o SubSeq(lines, end, Len(lines))))

tw_update(exists, file, table) ==
    LET table_text == StripNl(table)
        lines == SplitLines(file)
        start == FirstDailyHeader(lines, 1, {ReportDate})
        nxt == FirstDailyHeader(lines, start + 1, Dates)
        end == IF nxt = 0 THEN Len(lines) + 1 ELSE nxt
        section == SubSeq(lines, start, end - 1)
        t0 == FirstTableLine(section)
    IN  IF ~exists THEN Exit("week file not found")
        ELSE IF IsBlank(table_text) THEN Exit("table-file is empty")
        ELSE IF start = 0 THEN Exit("daily header not found for date")
        ELSE IF t0 = 0 THEN Exit("no markdown table found in daily section")
        ELSE Written(JoinLines(SubSeq(lines, 1, start - 1)
                        \o ReplaceTable(section, t0, table_text)
                        \o SubSeq(lines, end, Len(lines))))

MaxWeekLines == 4

\* the lines a weekly report is made of, without their "\n"
WeekLines ==
    {<<"##", " ", ReportDate, " ", "(Tue)">>, <<"##", "\t", ReportDate>>,
     <<"##", " ", OtherDate>>, <<"|", "x", "|">>, <<" ", "|", "x", "|">>,
     <<>>, <<"x">>, <<GapNote, "x">>}

RECURSIVE WeekTextsOf(_)
WeekTextsOf(n) ==
    IF n = 0 THEN {<<>>}
    ELSE {l \o <<"\n">> \o t : l \in WeekLines, t \in WeekTextsOf(n - 1)}
            \cup (IF n = 1 THEN WeekLines \ {<<>>} ELSE {})

WeekTexts == UNION {WeekTextsOf(n) : n \in 0..MaxWeekLines}

TableTexts ==
    {<<>>, <<"\n", " ", "\n">>,
     <<"|", "y", "|", "\n", "|", "y", "|", "\n">>,
     <<"|", "y", "|", "\n", "\n", GapNote, "y", "\n">>}

TableInit ==
    /\ CollectIdle /\ DedupIdle /\ UrlIdle /\ UpsertIdle /\ DigestIdle
    /\ tw_pc = "input"
    /\ tw_exists \in BOOLEAN
    /\ tw_file \in (IF tw_exists THEN WeekTexts ELSE {<<>>})
    /\ tw_table \in TableTexts
    /\ tw_out = tw_file

TableRun ==
    /\ tw_pc = "input"
    /\ LET r == tw_update(tw_exists, tw_file, tw_table)
       IN  /\ tw_pc' = r.status
           /\ tw_out' = IF r.status = "written" THEN r.text ELSE tw_out
    /\ UNCHANGED <<tw_exists, tw_file, tw_table>>
    /\ UNCHANGED <<collectVars, dedupVars, urlVars, upsertVars, digestVars>>

TableNext == TableRun

SpecTable == TableInit /\ [][TableNext]_vars

-----------------------------------------------------------------------------
(* bin/moltbook_digest.py: runs of main that share the state file.  A post *)
(* is a record of its id, the words of the text score_post reads, its url  *)
(* and its created_at.  An id of 0 is an id the code's 'if pid' rejects.   *)

NoId == 0
MaxPostId == 3
PostIds == 1..MaxPostId

\* KEYWORDS, on the words of the model
KEYWORDS == [k \in {"minio", "gold"} |-> IF k = "minio" THEN 5 ELSE 2]

RECURSIVE SumWeights(_, _)
SumWeights(ks, words) ==
    IF ks = {} THEN 0
    ELSE LET k == CHOOSE x \in ks : TRUE
         IN  (IF k \in words THEN KEYWORDS[k] ELSE 0) + SumWeights(ks \ {k}, words)

score_post(p) ==
    SumWeights(DOMAIN KEYWORDS, p.words) + (IF p.url # "" THEN 1 ELSE 0)

\* the state load_state returns: its seen_ids
load_state(exists, seen_ids) == IF exists THEN seen_ids ELSE {}

\* the loop of lines 153-158: the posts that are scored
Scored(posts, seen) ==
    SelectSeq(posts, LAMBDA p : ~(p.id # NoId /\ p.id \in seen))

\* the key of scored.sort
KeyGE(p, q) ==
    \/ score_post(p) > score_post(q)
    \/ score_post(p) = score_post(q) /\ p.created_at >= q.created_at

\* sort(reverse=True) leaves posts of equal keys in the order they had
InsertByKey(sorted, p) ==
    LET n == Cardinality({i \in 1..Len(sorted) : KeyGE(sorted[i], p)})
    IN  SubSeq(sorted, 1, n) \o <<p>> \o SubSeq(sorted, n + 1, Len(sorted))

RECURSIVE SortByKey(_, _, _)
SortByKey(posts, i, sorted) ==
    IF i > Len(posts) THEN sorted
    ELSE SortByKey(posts, i + 1, InsertByKey(sorted, posts[i]))

TopLimit == 8

\* top: the first TopLimit of the scored posts of a positive score
Top(posts, seen) ==
    LET scored == SortByKey(Scored(posts, seen), 1, <<>>)
        shown == SelectSeq(scored, LAMBDA p : score_post(p) > 0)
    IN  SubSeq(shown, 1, IF Len(shown) < TopLimit THEN Len(shown) ELSE TopLimit)

\* the ids of the posts of a list that the code takes for ids
PostIdsOf(posts) == {posts[i].id : i \in 1..Len(posts)} \ {NoId}

\* the cap of line 187 (500 in the source), scaled to the ids of the model
SeenCap == 2

\* list(seen)[-500:]: a set is listed in an order the language does not fix,
\* so the slice is any SeenCap of its elements (all of them up to the cap)
LastOfSeen(seen) ==
    {kept \in SUBSET seen :
        Cardinality(kept) = IF Cardinality(seen) < SeenCap
                            THEN Cardinality(seen) ELSE SeenCap}

MaxPosts == 2

\* what a post says: small talk, a linked post on gold, a later post on both
PostBodies ==
    {[words |-> {"chat"}, url |-> "", created_at |-> 1],
     [words |-> {"gold"}, url |-> "u", created_at |-> 1],
     [words |-> {"minio", "gold"}, url |-> "", created_at |-> 2]}

Posts ==
    {[id |-> i, words |-> b.words, url |-> b.url, created_at |-> b.created_at] :
        i \in PostIds \cup {NoId}, b \in PostBodies}

\* what the API answers: up to MaxPosts posts, no two of the same id
Responses ==
    {r \in UNION {[1..n -> Posts] : n \in 0..MaxPosts} :
        \A i, j \in 1..Len(r) : i # j /\ r[i].id # NoId => r[i].id # r[j].id}

DigestInit ==
    /\ CollectIdle /\ DedupIdle /\ UrlIdle /\ UpsertIdle /\ TableIdle
    /\ mb_pc = "start"
    /\ mb_exists = FALSE
    /\ mb_seen_ids = {}
    /\ mb_posts = <<>>
    /\ mb_top = <<>>
    /\ mb_earlier = {}

\* a run of main to its end
DigestRun ==
    /\ mb_pc # "idle"
    /\ \E posts \in Responses :
         LET seen == load_state(mb_exists, mb_seen_ids)
         IN  /\ mb_top' = Top(posts, seen)
             /\ mb_seen_ids' \in LastOfSeen(seen \cup PostIdsOf(posts))
             /\ mb_posts' = posts
    /\ mb_exists' = TRUE
    /\ mb_earlier' = mb_earlier \cup PostIdsOf(mb_posts)
    /\ mb_pc' = "ran"
    /\ UNCHANGED <<collectVars, dedupVars, urlVars, upsertVars, tableVars>>

\* a run that http_json ends: nothing was read or written yet
DigestFetchFail ==
    /\ mb_pc # "idle"
    /\ mb_pc' = "failed"
    /\ UNCHANGED <<mb_exists, mb_seen_ids, mb_posts, mb_top, mb_earlier>>
    /\ UNCHANGED <<collectVars, dedupVars, urlVars, upsertVars, tableVars>>

DigestNext == DigestRun \/ DigestFetchFail

SpecDigest == DigestInit /\ [][DigestNext]_vars

-----------------------------------------------------------------------------
(* fetch_xml, parse_items and the filter of _collect_one.  A feed is the   *)
(* sequence of its item nodes, each with the text of its title, link and   *)
(* date elements.  A date text is missing, unparsable, or denotes a time.  *)

MaxFeedLen == 2

FeedTitles == {<<>>, <<"a", "b">>}
FeedLinks == {<<>>, <<"1">>}
FeedDates == {[kind |-> "missing", t |-> 0], [kind |-> "garbage", t |-> 0],
              [kind |-> "rfc822", t |-> cutoff - 1], [kind |-> "iso", t |-> cutoff],
              [kind |-> "rfc822", t |-> cutoff + 1]}
FeedNodes == [title : FeedTitles, link : FeedLinks, date : FeedDates]

\* what fetch_xml raises: requests' raise_for_status / a connection error,
\* and ET.fromstring on a malformed body
FetchFailures == {Raised("HTTPError", "404 Client Error"),
                  Raised("ParseError", "syntax error: line 1, column 0")}

\* parse_dt_str: <<>> is None, <<t>> a datetime
parse_dt_str(d) == IF d.kind \in {"rfc822", "iso"} THEN <<d.t>> ELSE <<>>

\* parse_items: title, link and published_at of every node that has a title
\* or a link
RECURSIVE parse_items(_)
parse_items(nodes) ==
    IF nodes = <<>> THEN <<>>
    ELSE LET it == Head(nodes)
             title == Strip(it.title)
             link == Strip(it.link)
         IN  IF title = <<>> /\ link = <<>> THEN parse_items(Tail(nodes))
             ELSE <<[title |-> title, link |-> link,
                     published_at |-> parse_dt_str(it.date)]>> \o parse_items(Tail(nodes))

\* the comparison the wrong way round
Recent_Flipped(dt, cut) == ~(dt > cut)

\* the entry is not skipped by "if dt < cutoff: continue"
Recent(dt, cut) == ~(dt < cut)

\* the loop of _collect_one over parsed
RECURSIVE FilterItems(_, _, _)
FilterItems(entries, src, cut) ==
    IF entries = <<>> THEN <<>>
    ELSE LET e == Head(entries)
             rest == FilterItems(Tail(entries), src, cut)
         IN  IF e.published_at = <<>> THEN rest
             ELSE IF ~Recent(e.published_at[1], cut) THEN rest
             ELSE <<NewItem(e.title, e.link, e.published_at[1], src)>> \o rest

-----------------------------------------------------------------------------
(* collect.                                                                *)

RegionSources(r) == Sources[Regions[r]]
CurSource == RegionSources(region)[srcIdx]

\* an except clause that names only the failures of fetch_xml
Caught_OnlyFetch(exc) == exc.type \in {"HTTPError", "ParseError"}

\* except Exception: every failure of a source is caught
Caught(exc) == exc.type \in {"ValueError", "HTTPError", "ParseError"}

\* the entry names the source by its display name
ErrorEntry_ByName(src, exc) == [source |-> src.name, error |-> exc.msg]

\* errors.append({"source": src.id, "error": str(e)})
ErrorEntry(src, exc) == [source |-> src.id, error |-> exc.msg]

\* one list for the whole run
NewRegionItems_Carried(carried) == carried

\* all_items = [] at the start of a region
NewRegionItems(carried) == <<>>

Init ==
    /\ pc = "collect" /\ region = 1 /\ srcIdx = 1
    /\ all_items = <<>> /\ errors = <<>> /\ parsed = <<>> /\ out = <<>>
    /\ DedupIdle
    /\ ToolsIdle

\* the except branch of a source, or the exception leaving collect
HandleError(exc) ==
    IF Caught(exc)
    THEN /\ errors' = Append(errors, ErrorEntry(CurSource, exc))
         /\ srcIdx' = srcIdx + 1
         /\ UNCHANGED <<pc, region, all_items, parsed, out>>
    ELSE /\ pc' = "crashed"
         /\ UNCHANGED <<region, srcIdx, all_items, errors, parsed, out>>

\* build_url raises
ResolveFail ==
    /\ pc = "collect" /\ srcIdx <= Len(RegionSources(region))
    /\ ~build_url(CurSource).ok
    /\ HandleError(build_url(CurSource))
    /\ UNCHANGED <<dedupVars, toolVars>>

\* fetch_xml raises
FetchFail ==
    /\ pc = "collect" /\ srcIdx <= Len(RegionSources(region))
    /\ build_url(CurSource).ok
    /\ \E exc \in FetchFailures : HandleError(exc)
    /\ UNCHANGED <<dedupVars, toolVars>>

\* fetch_xml returns a feed and parse_items reads it
FetchParse ==
    /\ pc = "collect" /\ srcIdx <= Len(RegionSources(region))
    /\ build_url(CurSource).ok
    /\ \E n \in 0..MaxFeedLen : \E nodes \in [1..n -> FeedNodes] :
            parsed' = parse_items(nodes)
    /\ pc' = "filter"
    /\ UNCHANGED <<region, srcIdx, all_items, errors, out>>
    /\ UNCHANGED <<dedupVars, toolVars>>

\* the loop over parsed, and all_items.extend of what _collect_one returns
Filter ==
    /\ pc = "filter"
    /\ all_items' = all_items \o FilterItems(parsed, CurSource, cutoff)
    /\ parsed' = <<>>
    /\ srcIdx' = srcIdx + 1
    /\ pc' = "collect"
    /\ UNCHANGED <<region, errors, out>>
    /\ UNCHANGED <<dedupVars, toolVars>>

\* out["regions"][region] = {...}, and the next region starts
RegionDone ==
    /\ pc = "collect" /\ srcIdx > Len(RegionSources(region))
    /\ out' = Append(out, [region |-> Regions[region],
                           items |-> _dedup(all_items, DefaultThreshold),
                           errors |-> errors,
                           sources |-> [i \in 1..Len(RegionSources(region)) |->
                                            RegionSources(region)[i].id]])
    /\ IF region < Len(Regions)
       THEN /\ region' = region + 1 /\ srcIdx' = 1
            /\ all_items' = NewRegionItems(all_items) /\ errors' = <<>>
            /\ pc' = "collect"
       ELSE /\ pc' = "done"
            /\ UNCHANGED <<region, srcIdx, all_items, errors>>
    /\ UNCHANGED parsed
    /\ UNCHANGED <<dedupVars, toolVars>>

Next == ResolveFail \/ FetchFail \/ FetchParse \/ Filter \/ RegionDone

Spec == Init /\ [][Next]_vars

-----------------------------------------------------------------------------
(* Properties of _dedup on its own (SpecDedup).                            *)

\* an item without the alt lists a merge gave it
Base(k) == [k EXCEPT !.has_alt = FALSE, !.alt_links = <<>>, !.alt_sources = <<>>]

\* the kept entries that are the input item x
KeptAs(x) == {j \in 1..Len(dd_kept) : Base(dd_kept[j]) = x}
IsKept(x) == KeptAs(x) # {}

\* similar in both argument orders
SimBoth(x, y, thr) == SimGE(x.title, y.title, thr) /\ SimGE(y.title, x.title, thr)

DedupDone == dd_pc = "kept"
DedupSorted == SortedDesc(dd_items)

C3_SimilarPairMerges ==
    DedupDone => \A i, j \in 1..Len(dd_items) :
        LET x == dd_items[i]
            y == dd_items[j]
        IN  SimBoth(x, y, dd_threshold) /\ x.link # y.link =>
                /\ IsKept(x) # IsKept(y)
                /\ IsKept(x) => \E k \in KeptAs(x) : InSeq(y.link, dd_kept[k].alt_links)

\* C3 amended: two input items with similarity >= threshold (in both
\* argument orders) and distinct links are never both kept; and when one is
\* kept, is the first kept item the other is similar to, and the other's
\* link is non-empty and not the link of a kept item, the other's link is in
\* the kept one's alt_links.
C3_SimilarPairNeverBothKept ==
    DedupDone => \A i, j \in 1..Len(dd_items) :
        LET x == dd_items[i]
            y == dd_items[j]
            kx == KeptAs(x)
        IN  x.link # y.link /\ SimBoth(x, y, dd_threshold) =>
                /\ ~(kx # {} /\ IsKept(y))
                /\ \A k \in kx :
                      /\ y.link # <<>>
                      /\ \A h \in 1..Len(dd_kept) : dd_kept[h].link # y.link
                      /\ \A h \in 1..(k - 1) :
                            ~SimGE(y.title, dd_kept[h].title, dd_threshold)
                      => InSeq(y.link, dd_kept[k].alt_links)

\* a similar pair with distinct non-empty links among three items: one is
\* kept with the other's link in its alt_links
C3_Witness ==
    /\ DedupDone /\ Len(dd_items) = 3
    /\ \E i, j \in 1..Len(dd_items) :
        LET x == dd_items[i]
            y == dd_items[j]
        IN  /\ SimBoth(x, y, dd_threshold) /\ x.link # y.link
            /\ x.title # y.title
            /\ y.link # <<>> /\ x.link # <<>>
            /\ ~IsKept(y)
            /\ \E k \in KeptAs(x) : InSeq(y.link, dd_kept[k].alt_links)

\* C4 as stated: two input items with similarity strictly below the
\* threshold are both kept, as separate entries (stated here for two items
\* that both have a title).
C4_DissimilarPairBothKept ==
    DedupDone => \A i, j \in 1..Len(dd_items) :
        LET x == dd_items[i]
            y == dd_items[j]
        IN  /\ i # j
            /\ x.title # <<>> /\ y.title # <<>>
            /\ ~SimGE(x.title, y.title, dd_threshold)
            /\ ~SimGE(y.title, x.title, dd_threshold)
            => \E a \in KeptAs(x) : \E b \in KeptAs(y) : a # b

\* C4 amended: an item is kept as an entry of its own whenever its
\* similarity against every item processed before it (descending
\* (published_at, weight), ties in input order) is strictly below the
\* threshold and none of those carries its non-empty link.
C4_DissimilarToEarlierIsKept ==
    DedupDone =>
        LET srt == DedupSorted
        IN  \A q \in 1..Len(srt) :
                (\A p \in 1..(q - 1) :
                    /\ ~(srt[q].link # <<>> /\ srt[q].link = srt[p].link)
                    /\ ~SimGE(srt[q].title, srt[p].title, dd_threshold))
                => \E k \in 1..Len(dd_kept) : Base(dd_kept[k]) = srt[q]

\* three items, the last processed dissimilar to both others and sharing no
\* link with them: it is kept beside an earlier one
C4_Witness ==
    /\ DedupDone /\ Len(dd_items) = 3
    /\ LET y == DedupSorted[3]
       IN  /\ \A p \in 1..2 :
                /\ ~SimGE(y.title, DedupSorted[p].title, dd_threshold)
                /\ y.link # DedupSorted[p].link
           /\ y.title # <<>>
           /\ IsKept(y)
           /\ Len(dd_kept) = 2

\* C5: dedup is idempotent: run on its own output (the kept items with the
\* alt lists they received) it returns the same items in the same order.
C5_DedupIdempotent ==
    DedupDone => _dedup(dd_kept, dd_threshold) = dd_kept

\* an output of two kept items of equal sort key, one of which absorbed a
\* third item
C5_Witness ==
    /\ DedupDone /\ Len(dd_items) = 3 /\ Len(dd_kept) = 2
    /\ dd_kept[1].published_at = dd_kept[2].published_at
    /\ dd_kept[1].weight = dd_kept[2].weight
    /\ \E k \in 1..2 : dd_kept[k].has_alt /\ dd_kept[k].alt_links # <<>>

Perms(n) == {f \in [1..n -> 1..n] : \A a, b \in 1..n : a # b => f[a] # f[b]}
Permuted(items, f) == [i \in 1..Len(items) |-> items[f[i]]]

DistinctKeys(items) ==
    \A i, j \in 1..Len(items) :
        i # j => KeyLess(items[i], items[j]) \/ KeyLess(items[j], items[i])

\* C8 as stated: for every permutation of the input list, dedup returns the
\* same kept items, in the same order, with the same alt lists.
C8_OrderIndependent ==
    DedupDone => \A f \in Perms(Len(dd_items)) :
                    _dedup(Permuted(dd_items, f), dd_threshold) = dd_kept

\* C8 amended: when no two input items have the same (published_at, weight),
\* dedup returns the same result for every permutation of the input list.
C8_OrderIndependentOnDistinctKeys ==
    DedupDone /\ DistinctKeys(dd_items) =>
        \A f \in Perms(Len(dd_items)) :
            _dedup(Permuted(dd_items, f), dd_threshold) = dd_kept

\* three items of distinct keys given out of order, two of them merged
C8_Witness ==
    /\ DedupDone /\ Len(dd_items) = 3 /\ DistinctKeys(dd_items)
    /\ dd_items # DedupSorted
    /\ Len(dd_kept) = 2
    /\ \E k \in 1..2 : dd_kept[k].alt_links # <<>>

\* C9: alt_links of a kept item never contains the item's own link and
\* alt_sources never contains its own source name.
C9_AltListsExcludeOwn ==
    DedupDone => \A k \in 1..Len(dd_kept) :
                    /\ ~InSeq(dd_kept[k].link, dd_kept[k].alt_links)
                    /\ ~InSeq(dd_kept[k].source, dd_kept[k].alt_sources)

\* a kept item that absorbed two items of its own source
C9_Witness ==
    /\ DedupDone
    /\ \E k \in 1..Len(dd_kept) :
          /\ Len(dd_kept[k].alt_links) = 2
          /\ dd_kept[k].alt_sources = <<>>
          /\ \A i \in 1..Len(dd_items) : dd_items[i].source = dd_kept[k].source

-----------------------------------------------------------------------------
(* The course of _dedup, position by position of the sorted list.          *)

\* kept as it is when the loop reaches position q of the sorted list
KeptBefore(q) == dd_trace[q]

\* seen_url beside a kept list: the non-empty links of the kept items
KeptLinks(kept) == {kept[j].link : j \in 1..Len(kept)} \ {<<>>}

\* the candidate it is discarded by the exact-link rule when kept is kb
Suppressed(kb, it) == LinkSeen(it.link, KeptLinks(kb))

\* index of the item of kb that suppresses or absorbs the candidate it, 0 if
\* the candidate is appended to kept
Absorber(kb, it) ==
    IF LinkSeen(it.link, KeptLinks(kb))
    THEN CHOOSE j \in 1..Len(kb) : kb[j].link = it.link
    ELSE FirstMatch(kb, it, dd_threshold)

SameKey(x, y) == ~KeyLess(x, y) /\ ~KeyLess(y, x)

\* C11: the kept item that absorbs or suppresses a candidate precedes it in
\* the stable descending order by (published_at, weight): it is newer, or
\* equally dated and heavier, or tied on both and earlier in the input list.
\* Given alone, a newer item A and an older item B of the same weight, with
\* similar titles and distinct non-empty links, come out as the one kept item
\* A with alt_links = [link of B].
C11_RepresentativePrecedes ==
    DedupDone =>
        /\ LET srt == DedupSorted
               kt == dd_trace
           IN  \A q \in 1..Len(dd_items) :
              LET m == Absorber(kt[q], srt[q])
                  x == srt[q]
              IN  m # 0 =>
                    /\ m <= Len(dd_kept)
                    /\ ~KeyLess(Base(dd_kept[m]), x)
                    /\ SameKey(Base(dd_kept[m]), x) =>
                          \E i, j \in 1..Len(dd_items) :
                              /\ i < j
                              /\ dd_items[i] = Base(dd_kept[m])
                              /\ dd_items[j] = x
        /\ \A i, j \in 1..Len(dd_items) :
              LET A == dd_items[i]
                  B == dd_items[j]
              IN  /\ Len(dd_items) = 2
                  /\ A.published_at > B.published_at /\ A.weight = B.weight
                  /\ SimBoth(A, B, dd_threshold)
                  /\ A.link # <<>> /\ B.link # <<>> /\ A.link # B.link
                  => /\ Len(dd_kept) = 1
                     /\ Base(dd_kept[1]) = A
                     /\ dd_kept[1].alt_links = <<B.link>>

\* three items of one (published_at, weight): the second of the input merges
\* into the first and the third is suppressed by the first's link
C11_Witness ==
    /\ DedupDone /\ Len(dd_items) = 3 /\ Len(dd_kept) = 1
    /\ \A i \in 2..3 : SameKey(dd_items[1], dd_items[i])
    /\ Base(dd_kept[1]) = dd_items[1]
    /\ dd_items[2].title # dd_items[1].title
    /\ dd_kept[1].alt_links = <<dd_items[2].link>>
    /\ dd_items[3].link = dd_items[1].link
    /\ ~SimGE(dd_items[3].title, dd_items[1].title, dd_threshold)

\* C12: the exact-link rule comes before the title test and records
\* nothing: a candidate whose non-empty link is the link of a kept item is
\* discarded, and kept, with every alt_links and alt_sources in it, is after
\* the candidate what it was before, also when the candidate's title is
\* similar to a kept item's and its source is another one.
C12_LinkSuppressionRecordsNothing ==
    DedupDone =>
        LET srt == DedupSorted
            kt == dd_trace
        IN  /\ kt[Len(dd_items) + 1] = dd_kept
            /\ \A q \in 1..Len(dd_items) :
                  LET u == srt[q].link
                  IN  (u # <<>> /\ \E j \in 1..Len(kt[q]) : kt[q][j].link = u)
                        => kt[q + 1] = kt[q]

\* two items with one link, similar titles and different sources: the older
\* one is discarded and the kept one has no alt lists
C12_Witness ==
    /\ DedupDone /\ Len(dd_items) = 2 /\ Len(dd_kept) = 1
    /\ dd_items[1].link # <<>> /\ dd_items[1].link = dd_items[2].link
    /\ dd_items[1].title # dd_items[2].title
    /\ SimBoth(dd_items[1], dd_items[2], dd_threshold)
    /\ dd_items[1].source # dd_items[2].source
    /\ ~dd_kept[1].has_alt /\ dd_kept[1].alt_sources = <<>> /\ dd_kept[1].alt_links = <<>>

\* the items of kb that the candidate it is similar to
Matches(kb, it) == {j \in 1..Len(kb) : SimGE(it.title, kb[j].title, dd_threshold)}

\* a is a or a with x appended
SameOrAppended(after, before, x) == after = before \/ after = Append(before, x)

C17_NoMergeBelowThreshold ==
    DedupDone =>
        /\ \A k \in 1..Len(dd_kept) :
              /\ \A a \in 1..Len(dd_kept[k].alt_links) :
                    \E i \in 1..Len(dd_items) :
                        /\ dd_items[i].link = dd_kept[k].alt_links[a]
                        /\ SimGE(dd_items[i].title, dd_kept[k].title, dd_threshold)
              /\ \A a \in 1..Len(dd_kept[k].alt_sources) :
                    \E i \in 1..Len(dd_items) :
                        /\ dd_items[i].source = dd_kept[k].alt_sources[a]
                        /\ SimGE(dd_items[i].title, dd_kept[k].title, dd_threshold)
        /\ LET srt == DedupSorted
               kt == dd_trace
           IN  \A q \in 1..Len(dd_items) :
              LET kb == kt[q]
                  ka == kt[q + 1]
                  it == srt[q]
              IN  \A j \in 1..Len(kb) :
                    ka[j] # kb[j] =>
                        /\ SimGE(it.title, kb[j].title, dd_threshold)
                        /\ SameOrAppended(ka[j].alt_links, kb[j].alt_links, it.link)
                        /\ SameOrAppended(ka[j].alt_sources, kb[j].alt_sources, it.source)

\* two near-duplicate headlines below the threshold are both kept, from
\* different sources and with different links; the first absorbed a third
\* item and the second has no alt lists
C17_Witness ==
    /\ DedupDone /\ Len(dd_items) = 3 /\ Len(dd_kept) = 2
    /\ Sim(dd_kept[2].title, dd_kept[1].title)[1] > 0
    /\ ~SimGE(dd_kept[2].title, dd_kept[1].title, dd_threshold)
    /\ dd_kept[1].source # dd_kept[2].source
    /\ dd_kept[1].link # <<>> /\ dd_kept[2].link # <<>>
    /\ Len(dd_kept[1].alt_links) = 1 /\ Len(dd_kept[1].alt_sources) = 1
    /\ ~dd_kept[2].has_alt

\* C18: dedup loses no link and invents no item.  Every non-empty link of an
\* input item is, in the output, the link of a kept item or in the alt_links
\* of a kept item; and the kept items are input items, each kept once: kept,
\* without the alt lists, is a sub-list of the sorted input.
C18_NoLinkLost ==
    DedupDone =>
        /\ \A i \in 1..Len(dd_items) :
              dd_items[i].link # <<>> =>
                  \E k \in 1..Len(dd_kept) :
                      \/ dd_kept[k].link = dd_items[i].link
                      \/ InSeq(dd_items[i].link, dd_kept[k].alt_links)
        /\ Len(dd_kept) <= Len(dd_items)
        /\ LET srt == DedupSorted
           IN  \E f \in [1..Len(dd_kept) -> 1..Len(dd_items)] :
                  /\ \A a, b \in 1..Len(dd_kept) : a < b => f[a] < f[b]
                  /\ \A k \in 1..Len(dd_kept) : Base(dd_kept[k]) = srt[f[k]]

\* three items given oldest first, merged into the newest, which has no link
\* of its own and carries the links of the two others
C18_Witness ==
    /\ DedupDone /\ Len(dd_items) = 3 /\ Len(dd_kept) = 1
    /\ dd_items # DedupSorted
    /\ Base(dd_kept[1]) = dd_items[3]
    /\ dd_kept[1].link = <<>>
    /\ dd_kept[1].alt_links \in {<<dd_items[1].link, dd_items[2].link>>,
                                 <<dd_items[2].link, dd_items[1].link>>}
    /\ dd_items[1].link # dd_items[2].link

\* C19: the output of dedup holds no duplicate pair: for any two kept items
\* the title similarity of the later kept against the earlier kept is
\* strictly below the threshold; and kept is in descending order of
\* (published_at, weight).
C19_NoDuplicatePairLeft ==
    DedupDone => \A a, b \in 1..Len(dd_kept) :
        a < b =>
            /\ ~SimGE(dd_kept[b].title, dd_kept[a].title, dd_threshold)
            /\ ~KeyLess(dd_kept[a], dd_kept[b])

\* three kept items with titles, of which the first and the last are near
\* duplicates below the threshold, given in another order than kept
C19_Witness ==
    /\ DedupDone /\ Len(dd_items) = 3 /\ Len(dd_kept) = 3
    /\ dd_items # DedupSorted
    /\ KeyLess(dd_kept[3], dd_kept[1])
    /\ Sim(dd_kept[3].title, dd_kept[1].title)[1] > 0
    /\ \A a, b \in 1..3 : a # b => dd_kept[a].title # dd_kept[b].title

\* C20 as stated: no link that is the primary link of a kept item is in the
\* alt_links of another kept item (stated here for kept items that both
\* have a title).
C20_UrlShownOnce ==
    DedupDone => \A a, b \in 1..Len(dd_kept) :
        /\ a # b /\ dd_kept[a].link # <<>>
        /\ dd_kept[a].title # <<>> /\ dd_kept[b].title # <<>>
        => ~InSeq(dd_kept[a].link, dd_kept[b].alt_links)

\* C20 amended: the primary link of a kept item is never in the alt_links of
\* that item or of a kept item that comes after it in the output: a link is
\* recorded as an alternate only when no kept item has it as its primary
\* link.  (A link recorded as an alternate of one kept item can be the
\* primary link of an item kept later.)
C20_PrimaryLinkNotInLaterAltLinks ==
    DedupDone =>
        /\ \A a, b \in 1..Len(dd_kept) :
              a <= b /\ dd_kept[a].link # <<>>
                  => ~InSeq(dd_kept[a].link, dd_kept[b].alt_links)
        /\ LET srt == DedupSorted
               kt == dd_trace
           IN  \A q \in 1..Len(dd_items) : \A j \in 1..Len(kt[q]) :
                  kt[q + 1][j].alt_links # kt[q][j].alt_links
                      => srt[q].link \notin KeptLinks(kt[q])

\* the link recorded in the alt_links of the first kept item is the primary
\* link of the second, which was kept after the merge
C20_Witness ==
    /\ DedupDone /\ Len(dd_items) = 3 /\ Len(dd_kept) = 2
    /\ dd_kept[2].link # <<>>
    /\ dd_kept[1].alt_links = <<dd_kept[2].link>>
    /\ dd_kept[1].link # <<>>
    /\ dd_kept[2].title # <<>>

-----------------------------------------------------------------------------
(* Properties of build_url on its own (SpecUrl).                           *)

UrlResolved == bu_pc = "resolved"

\* "if src.url", "if src.url_template", "src.query is not None"
UrlSet(src) == src.url # None /\ src.url # ""
TemplateSet(src) == src.url_template # None /\ src.url_template # <<>>
QuerySet(src) == src.query # None

Escapes == {"%20", "%09", "%2F", "%3F"}

\* the character an element of an encoded query stands for
Unquote(e) ==
    CASE e = "%20" -> " "
      [] e = "%09" -> "\t"
      [] e = "%2F" -> "/"
      [] e = "%3F" -> "?"
      [] OTHER -> e

\* C13: build_url fails for a source whose type is not supported, whatever
\* else is set; otherwise it returns the direct url, unchanged, if one is
\* set; otherwise, if url_template and query are both set, the template with
\* the URL-encoded query in the place of its placeholder; otherwise it fails.
\* It returns nothing for a source that has neither a url nor a template with
\* a query.
C13_UrlResolution ==
    UrlResolved =>
        LET s == bu_src
            r == bu_res
        IN  /\ s.type # "rss" => ~r.ok /\ r.type = "ValueError"
            /\ s.type = "rss" /\ UrlSet(s) => r.ok /\ r.value = s.url
            /\ s.type = "rss" /\ ~UrlSet(s) /\ TemplateSet(s) /\ QuerySet(s) =>
                  /\ r.ok
                  /\ Len(r.value) = Len(s.url_template)
                  /\ \A i \in 1..Len(s.url_template) :
                        IF s.url_template[i] = "{query}"
                        THEN /\ Len(r.value[i]) = Len(s.query)
                             /\ \A c \in 1..Len(s.query) :
                                   /\ r.value[i][c] \in Unreserved \cup Escapes
                                   /\ Unquote(r.value[i][c]) = s.query[c]
                        ELSE r.value[i] = <<s.url_template[i]>>
            /\ s.type = "rss" /\ ~UrlSet(s) /\ ~(TemplateSet(s) /\ QuerySet(s)) =>
                  ~r.ok /\ r.type = "ValueError"
            /\ r.ok => UrlSet(s) \/ (TemplateSet(s) /\ QuerySet(s))

\* a source of an unsupported type that has a url, a template and a query,
\* and for which build_url raised
C13_Witness ==
    /\ UrlResolved
    /\ bu_src.type # "rss"
    /\ UrlSet(bu_src) /\ TemplateSet(bu_src) /\ QuerySet(bu_src)
    /\ ~bu_res.ok

-----------------------------------------------------------------------------
(* Properties of md_upsert_daily_section (SpecUpsert).                     *)

\* a line without its "\n"
Chomp(ln) == IF EndsNl(ln) THEN SubSeq(ln, 1, Len(ln) - 1) ELSE ln

UpsertWritten == md_pc = "written"

\* the lines of the file before the run, of the file after it, of the block
OldLines == IF md_exists THEN SplitLines(md_file) ELSE <<>>
NewLines == SplitLines(md_out)
BlockLines == SplitLines(md_block)

UpsertStart == FirstHeader(OldLines, 1, {ReportDate})
UpsertEnd ==
    IF FirstHeader(OldLines, UpsertStart + 1, Dates) = 0 THEN Len(OldLines) + 1
    ELSE FirstHeader(OldLines, UpsertStart + 1, Dates)

\* the file after the run is: the lines before the header as they were, the
\* header line as it was, the lines of the block after its first, at most
\* one blank line, and the lines from the next daily header on as they were
ReplacedInPlace ==
    LET body == Tail(BlockLines)
    IN  \E sep \in 0..1 :
          /\ Len(NewLines) = UpsertStart + Len(body) + sep + (Len(OldLines) - UpsertEnd + 1)
          /\ \A i \in 1..(UpsertStart - 1) : NewLines[i] = OldLines[i]
          /\ Chomp(NewLines[UpsertStart]) = Chomp(OldLines[UpsertStart])
          /\ \A i \in 1..Len(body) : Chomp(NewLines[UpsertStart + i]) = Chomp(body[i])
          /\ sep = 1 => NewLines[UpsertStart + Len(body) + 1] = <<"\n">>
          /\ \A i \in UpsertEnd..Len(OldLines) :
                NewLines[UpsertStart + Len(body) + sep + (i - UpsertEnd + 1)] = OldLines[i]

\* the file after the run is: the lines it had, in order, at most one blank
\* line, and the lines of the block
AppendedAtEnd ==
    \E sep \in 0..1 :
        /\ Len(NewLines) = Len(OldLines) + sep + Len(BlockLines)
        /\ \A i \in 1..Len(OldLines) : Chomp(NewLines[i]) = Chomp(OldLines[i])
        /\ sep = 1 => NewLines[Len(OldLines) + 1] = <<"\n">>
        /\ \A i \in 1..Len(BlockLines) :
              Chomp(NewLines[Len(OldLines) + sep + i]) = Chomp(BlockLines[i])

\* C14 as stated: when the file has a header line for the date, the run
\* keeps that line, replaces the body of the section (up to the next daily
\* header or the end of the file) with the block minus its first line, and
\* leaves the lines before the header and from the next daily header on
\* unchanged and in order; when it has none, the block is appended at the end
\* of the file and the lines the file had are kept in order.
C14_UpsertFrame ==
    UpsertWritten => IF UpsertStart # 0 THEN ReplacedInPlace ELSE AppendedAtEnd

\* the header line found is the last line of the file and has no "\n", and
\* the block has lines after its first
HeaderUnterminated ==
    /\ UpsertStart # 0
    /\ ~EndsNl(OldLines[UpsertStart])
    /\ Len(BlockLines) > 1

\* C14 away from the failing input: the frame holds in every run in which the
\* header line found ends with "\n" or the block has no line after its first.
C14_UpsertFrameTerminatedHeader ==
    UpsertWritten /\ ~HeaderUnterminated =>
        IF UpsertStart # 0 THEN ReplacedInPlace ELSE AppendedAtEnd

\* a section between two other lines replaced in place: the line before the
\* header and the next daily header are where they were
C14_Witness ==
    /\ UpsertWritten /\ UpsertStart = 2 /\ UpsertEnd = 3 /\ Len(OldLines) = 3
    /\ Len(BlockLines) = 2
    /\ ReplacedInPlace
    /\ NewLines[1] = OldLines[1] /\ NewLines[2] = OldLines[2]
    /\ NewLines[Len(NewLines)] = OldLines[3]

\* the run on a file that ends with the header, without "\n": the first line
\* of the new body is glued to the header line
C14_HeaderGlued ==
    /\ UpsertWritten /\ HeaderUnterminated
    /\ NewLines[UpsertStart] = OldLines[UpsertStart] \o BlockLines[2]

-----------------------------------------------------------------------------
(* Properties of tw_weekly_update_table (SpecTable).                       *)

WeekOldLines == SplitLines(tw_file)

\* the file has a daily header for the date
HasDailyHeader == \E i \in 1..Len(WeekOldLines) : IsDailyHeader(WeekOldLines[i], {ReportDate})

\* the section of the first daily header for the date, up to the next daily
\* header, has a table line
SectionHasTable ==
    \E i \in 1..Len(WeekOldLines) :
        /\ IsDailyHeader(WeekOldLines[i], {ReportDate})
        /\ \A h \in 1..(i - 1) : ~IsDailyHeader(WeekOldLines[h], {ReportDate})
        /\ \E k \in (i + 1)..Len(WeekOldLines) :
              /\ IsTableLine(WeekOldLines[k])
              /\ \A h \in (i + 1)..k : ~IsDailyHeader(WeekOldLines[h], Dates)

\* C15: when the week file is missing, the table file is empty, the file has
\* no daily header for the date, or the date's section has no table, the
\* script exits with a non-zero status and the week file is as it was (a
\* missing file stays missing); the file is written only when a section and
\* a table in it were found.
C15_UpdateTableConservative ==
    tw_pc \in {"exit", "written"} =>
        /\ (~tw_exists \/ IsBlank(tw_table) \/ ~HasDailyHeader \/ ~SectionHasTable)
              => tw_pc = "exit"
        /\ tw_pc = "exit" => tw_out = tw_file
        /\ tw_pc = "written" =>
              tw_exists /\ ~IsBlank(tw_table) /\ HasDailyHeader /\ SectionHasTable

\* the file has the header of the date, and a table, but the table is in the
\* section of another day: the script exits and the file is as it was
C15_Witness ==
    /\ tw_pc = "exit" /\ tw_exists /\ ~IsBlank(tw_table)
    /\ HasDailyHeader /\ ~SectionHasTable
    /\ \E k \in 1..Len(WeekOldLines) : IsTableLine(WeekOldLines[k])
    /\ tw_out = tw_file

-----------------------------------------------------------------------------
(* Properties of collect (Spec).                                           *)

Ids(r) == {RegionSources(r)[i].id : i \in 1..Len(RegionSources(r))}
Names(r) == {RegionSources(r)[i].name : i \in 1..Len(RegionSources(r))}
PosOf(r, id) == CHOOSE i \in 1..Len(RegionSources(r)) : RegionSources(r)[i].id = id
ErrorSources(errs) == {errs[i].source : i \in 1..Len(errs)}
Range(seq) == {seq[i] : i \in 1..Len(seq)}

\* the items a step appended to all_items
Added == SubSeq(all_items', Len(all_items) + 1, Len(all_items'))
Dated(e) == e.published_at # <<>> /\ e.published_at[1] >= cutoff

C1_KeptAreRecent ==
    /\ \A i \in 1..Len(all_items) : all_items[i].published_at >= cutoff
    /\ \A r \in 1..Len(out) : \A i \in 1..Len(out[r].items) :
            out[r].items[i].published_at >= cutoff

C1_FilterStep ==
    pc = "filter" =>
        /\ Len(all_items') >= Len(all_items)
        /\ SubSeq(all_items', 1, Len(all_items)) = all_items
        /\ Len(Added) = Cardinality({i \in 1..Len(parsed) : Dated(parsed[i])})
        /\ \A i \in 1..Len(parsed) :
              Dated(parsed[i]) <=>
                  \E a \in 1..Len(Added) :
                      /\ Added[a].title = parsed[i].title
                      /\ Added[a].link = parsed[i].link
                      /\ <<Added[a].published_at>> = parsed[i].published_at

\* C1: every item of every region's items has a published_at >= cutoff_utc;
\* the filter of _collect_one passes on exactly the entries that have a
\* parsed timestamp at or after the cutoff, so an entry before the cutoff or
\* without a parsable timestamp is dropped and one exactly at the cutoff is
\* retained.
C1_RecencyFilter == []C1_KeptAreRecent /\ [][C1_FilterStep]_vars

\* a finished run whose result holds an item dated exactly at the cutoff and
\* a newer one
C1_Witness ==
    /\ pc = "done"
    /\ \E r \in 1..Len(out) : \E i \in 1..Len(out[r].items) :
            out[r].items[i].published_at = cutoff
    /\ \E r \in 1..Len(out) : \E i \in 1..Len(out[r].items) :
            out[r].items[i].published_at > cutoff

C6_ErrorsAndItemsApart ==
    /\ pc \in {"collect", "filter"} =>
          /\ \A i \in 1..Len(errors) :
                /\ errors[i].source \in Ids(region)
                /\ PosOf(region, errors[i].source) < srcIdx
                /\ \A j \in (i + 1)..Len(errors) :
                      PosOf(region, errors[i].source) < PosOf(region, errors[j].source)
          /\ \A i \in 1..Len(all_items) :
                /\ all_items[i].source_id \in Ids(region) \ ErrorSources(errors)
                /\ PosOf(region, all_items[i].source_id) < srcIdx
    /\ \A r \in 1..Len(out) :
          /\ \A i \in 1..Len(out[r].errors) :
                /\ out[r].errors[i].source \in Ids(r)
                /\ \A j \in (i + 1)..Len(out[r].errors) :
                      out[r].errors[i].source # out[r].errors[j].source
          /\ \A i \in 1..Len(out[r].items) :
                /\ out[r].items[i].source_id \notin ErrorSources(out[r].errors)
                /\ \A n \in Range(out[r].items[i].alt_sources) :
                      \A p \in 1..Len(RegionSources(r)) :
                          RegionSources(r)[p].name = n =>
                              RegionSources(r)[p].id \notin ErrorSources(out[r].errors)

C6_SourceStep ==
    /\ pc = "collect" /\ srcIdx <= Len(RegionSources(region)) =>
          \/ /\ pc' = "filter"
             /\ errors' = errors /\ all_items' = all_items /\ srcIdx' = srcIdx
          \/ /\ pc' = "collect" /\ region' = region /\ srcIdx' = srcIdx + 1
             /\ all_items' = all_items
             /\ Len(errors') = Len(errors) + 1
             /\ SubSeq(errors', 1, Len(errors)) = errors
             /\ DOMAIN errors'[Len(errors')] = {"source", "error"}
             /\ errors'[Len(errors')].source = CurSource.id
    /\ pc = "filter" =>
          /\ pc' = "collect" /\ region' = region /\ srcIdx' = srcIdx + 1
          /\ errors' = errors
          /\ SubSeq(all_items', 1, Len(all_items)) = all_items
          /\ \A a \in 1..Len(Added) : Added[a].source_id = CurSource.id

\* C6: a source that fails (URL resolution, fetch or parse) adds exactly one
\* entry {source: its id, error: message} to the region's errors and no item
\* to the region's items, and the next source is processed; a source that
\* does not fail adds its items and no error entry.
C6_FailureIsolation == []C6_ErrorsAndItemsApart /\ [][C6_SourceStep]_vars

\* taiwan: the first source failed at fetch, the second at URL resolution,
\* and the items of the third are the region's items
C6_Witness ==
    /\ pc = "done"
    /\ Len(out[1].errors) = 2
    /\ out[1].errors[1].source = "tw1" /\ out[1].errors[2].source = "tw2"
    /\ Len(out[1].items) = 2
    /\ \A i \in 1..2 : out[1].items[i].source_id = "tw3"

RECURSIVE StepsBefore(_)
StepsBefore(r) ==
    IF r = 1 THEN 0 ELSE StepsBefore(r - 1) + 2 * Len(RegionSources(r - 1)) + 1

\* how far the loops of collect have come
Progress ==
    IF pc = "done" THEN StepsBefore(Len(Regions) + 1)
    ELSE StepsBefore(region) + 2 * (srcIdx - 1) + (IF pc = "filter" THEN 1 ELSE 0)

AllFailed(r) == Ids(r) \subseteq ErrorSources(out[r].errors)

ResultDocument ==
    /\ Len(out) = Len(Regions)
    /\ \A r \in 1..Len(Regions) :
          /\ out[r].region = Regions[r]
          /\ Len(out[r].sources) = Len(RegionSources(r))
          /\ \A i \in 1..Len(out[r].sources) : out[r].sources[i] = RegionSources(r)[i].id
          /\ Len(out[r].errors) <= Len(RegionSources(r))
          /\ AllFailed(r) =>
                /\ out[r].items = <<>>
                /\ Len(out[r].errors) = Len(RegionSources(r))

\* collect is at a step it can take: a source to process (build_url returns
\* or raises, fetch_xml returns or raises), a parsed feed to filter, or a
\* region to close
CanStep ==
    /\ pc \in {"collect", "filter"}
    /\ region \in 1..Len(Regions)
    /\ srcIdx \in 1..(Len(RegionSources(region)) + 1)
    /\ pc = "filter" => srcIdx <= Len(RegionSources(region))

\* C7: a run always comes to its result document, whatever subset of sources
\* fails: short of the result collect always has a next step (no failure of
\* a source aborts it), every step advances the bounded position of its
\* loops, and the result has an entry for each region; a region whose
\* sources all failed has no items and one error entry per configured source.
C7_RunCompletes ==
    /\ [](pc = "done" \/ CanStep)
    /\ [](Progress <= StepsBefore(Len(Regions) + 1))
    /\ [][Progress' > Progress]_vars
    /\ [](pc = "done" => ResultDocument)

\* a finished run in which every source of every region failed
C7_Witness ==
    /\ pc = "done" /\ ResultDocument
    /\ \A r \in 1..Len(Regions) : AllFailed(r) /\ out[r].items = <<>>

\* C10: regions are deduplicated independently: the list given to dedup for
\* a region holds items of that region's sources only, and every item of a
\* region's items, with every name in its alt_sources, comes from a source
\* configured in that region.
C10_RegionsIndependent ==
    /\ pc \in {"collect", "filter"} =>
          \A i \in 1..Len(all_items) : all_items[i].source_id \in Ids(region)
    /\ \A r \in 1..Len(out) : \A i \in 1..Len(out[r].items) :
          /\ out[r].items[i].source_id \in Ids(r)
          /\ Range(out[r].items[i].alt_sources) \subseteq Names(r)

\* both regions collected an item with the same title and the same link, and
\* each region kept its own, unmerged
C10_Witness ==
    /\ pc = "done"
    /\ \E i \in 1..Len(out[1].items) : \E j \in 1..Len(out[2].items) :
          /\ out[1].items[i].link = out[2].items[j].link
          /\ out[1].items[i].link # <<>>
          /\ out[1].items[i].title = out[2].items[j].title
          /\ out[1].items[i].title # <<>>
          /\ ~out[2].items[j].has_alt

-----------------------------------------------------------------------------
(* Properties of moltbook_digest (SpecDigest).                             *)

\* the ids the completed runs were given, the last one included
ReturnedIds == mb_earlier \cup PostIdsOf(mb_posts)

ShownIds == PostIdsOf(mb_top)

\* C21: over runs that share the state file, the ids a completed run was
\* given are recorded in seen_ids, and no later run shows a post of such an
\* id in its digest, also when there are more seen ids than the cap keeps.
C21_NeverShownTwice ==
    mb_pc # "idle" =>
        /\ PostIdsOf(mb_posts) \subseteq mb_seen_ids
        /\ ShownIds \cap mb_earlier = {}

\* a run showed a post whose id an earlier completed run was given
C21_ShownAgain ==
    /\ mb_pc = "ran"
    /\ \E i \in 1..Len(mb_top) : mb_top[i].id \in mb_earlier

\* C21, while the ids ever given are no more than the cap: every one of
\* them is in seen_ids and none is shown by a later run.
C21_NeverShownTwiceUnderCap ==
    (mb_pc # "idle" /\ Cardinality(ReturnedIds) <= SeenCap) =>
        /\ ReturnedIds \subseteq mb_seen_ids
        /\ ShownIds \cap mb_earlier = {}

\* under the cap, a run was given again a post it would have shown
C21_Witness ==
    /\ mb_pc = "ran"
    /\ Cardinality(ReturnedIds) <= SeenCap
    /\ \E i \in 1..Len(mb_posts) :
          /\ mb_posts[i].id \in mb_earlier
          /\ score_post(mb_posts[i]) > 0
          /\ mb_posts[i].id \notin ShownIds

====
